---- MODULE Spec2Model ----
(***************************************************************************)
(* Model of the query engine of ev_chatbot_streamlit.py: detect_intent,    *)
(* extract_query_details, build_prediction_row and chatbot_reply, over the *)
(* cached dataset table `data` and the cached regression model `model`.    *)
(*                                                                         *)
(* A text is a sequence of one-character strings, so that str.lower, the   *)
(* `in` substring tests, the re.search patterns and difflib's similarity   *)
(* are computed character by character as the interpreter computes them.   *)
(***************************************************************************)
EXTENDS Integers, Sequences, FiniteSets, TLC

VARIABLES data, model, q, intent, d, reply, hist

vars == <<data, model, q, intent, d, reply, hist>>

-----------------------------------------------------------------------------
(* Characters.  Alphabet lists the characters of the modelled texts in      *)
(* code-point order; Ord is the position used by string comparison.         *)

Alphabet ==
  <<" ", "0", "1", "2", "3", "4", "5", "6", "7", "8", "9",
    "A", "B", "C", "D", "E", "F", "G", "H", "I", "J", "K", "L", "M",
    "N", "O", "P", "Q", "R", "S", "T", "U", "V", "W", "X", "Y", "Z",
    "a", "b", "c", "d", "e", "f", "g", "h", "i", "j", "k", "l", "m",
    "n", "o", "p", "q", "r", "s", "t", "u", "v", "w", "x", "y", "z">>

\* ord(): the position in Alphabet
RECURSIVE OrdTable(_)
OrdTable(i) ==
  IF i > Len(Alphabet) THEN <<>> ELSE (Alphabet[i] :> i) @@ OrdTable(i + 1)

OrdMap == OrdTable(1)

Ord(c) == OrdMap[c]

IsDigit(c) == Ord(c) \in 2..11

IsSpace(c) == c = " "

DigitVal(c) == Ord(c) - 2

\* str.lower on one character: A-Z map to a-z, everything else is kept.
LowerChar(c) == IF Ord(c) \in 12..37 THEN Alphabet[Ord(c) + 26] ELSE c

\* str.lower
RECURSIVE Lower(_)
Lower(s) ==
  IF s = <<>> THEN <<>> ELSE <<LowerChar(Head(s))>> \o Lower(Tail(s))

\* s[i:] starts with p (i is 1-based)
PrefixAt(s, i, p) ==
  /\ i + Len(p) - 1 <= Len(s)
  /\ \A k \in 1..Len(p) : s[i + k - 1] = p[k]

\* `p in s` on strings
Contains(s, p) == \E i \in 1..(Len(s) + 1) : PrefixAt(s, i, p)

\* Python's < on strings: first differing code point, a proper prefix is less.
StrLess(a, b) ==
  \E k \in 1..(Len(b)) :
    /\ \A m \in 1..(k - 1) : m <= Len(a) /\ a[m] = b[m]
    /\ k - 1 <= Len(a)
    /\ (k > Len(a) \/ Ord(a[k]) < Ord(b[k]))

-----------------------------------------------------------------------------
(* Keywords and units of the source, spelled out as character sequences.    *)

kw_price     == <<"p","r","i","c","e">>
kw_estimate  == <<"e","s","t","i","m","a","t","e">>
kw_under     == <<"u","n","d","e","r">>
kw_budget    == <<"b","u","d","g","e","t">>
kw_recommend == <<"r","e","c","o","m","m","e","n","d">>
kw_suggest   == <<"s","u","g","g","e","s","t">>
kw_info      == <<"i","n","f","o">>
kw_details   == <<"d","e","t","a","i","l","s">>
kw_specs     == <<"s","p","e","c","s">>
kw_tell      == <<"t","e","l","l"," ","m","e"," ","a","b","o","u","t">>

u_kwh     == <<"k","w","h">>
u_kw      == <<"k","w">>
u_battery == <<"b","a","t","t","e","r","y">>
u_km      == <<"k","m">>
u_range   == <<"r","a","n","g","e">>
u_lakh    == <<"l","a","k","h">>
u_lakhs   == <<"l","a","k","h","s">>
u_million == <<"m","i","l","l","i","o","n">>
u_cr      == <<"c","r">>
u_crore   == <<"c","r","o","r","e">>

\* The alternations of the three patterns, in the order the regex tries them.
BatteryUnits == <<u_kwh, u_kw, u_battery>>
RangeUnits   == <<u_km, u_range>>
BudgetUnits  == <<u_lakh, u_lakhs, u_million, u_cr, u_crore>>

-----------------------------------------------------------------------------
(* detect_intent *)

\* variant: the budget rule tried before the price rule
IntentOfBudgetFirst(t) ==
  IF Contains(t, kw_under) \/ Contains(t, kw_budget) THEN "budget"
  ELSE IF Contains(t, kw_price) \/ Contains(t, kw_estimate) THEN "price"
  ELSE IF Contains(t, kw_recommend) \/ Contains(t, kw_suggest) THEN "recommend"
  ELSE IF \E k \in {kw_info, kw_details, kw_specs, kw_tell} : Contains(t, k)
       THEN "info"
  ELSE "unknown"

\* the keyword rules on the lowered text t
IntentOf(t) ==
  IF Contains(t, kw_price) \/ Contains(t, kw_estimate) THEN "price"
  ELSE IF Contains(t, kw_under) \/ Contains(t, kw_budget) THEN "budget"
  ELSE IF Contains(t, kw_recommend) \/ Contains(t, kw_suggest) THEN "recommend"
  ELSE IF \E k \in {kw_info, kw_details, kw_specs, kw_tell} : Contains(t, k)
       THEN "info"
  ELSE "unknown"

detect_intent(text) == IntentOf(Lower(text))

-----------------------------------------------------------------------------
(* re.search(r"(\d+)\s*(u1|u2|...)", s)                                     *)

\* end (exclusive) of the greedy run of characters satisfying the class
RECURSIVE DigitsEnd(_, _)
DigitsEnd(s, i) ==
  IF i <= Len(s) /\ IsDigit(s[i]) THEN DigitsEnd(s, i + 1) ELSE i

RECURSIVE SpacesEnd(_, _)
SpacesEnd(s, i) ==
  IF i <= Len(s) /\ IsSpace(s[i]) THEN SpacesEnd(s, i + 1) ELSE i

\* int() / float() of a string of decimal digits
RECURSIVE IntOf(_)
IntOf(ds) ==
  IF ds = <<>> THEN 0
  ELSE 10 * IntOf(SubSeq(ds, 1, Len(ds) - 1)) + DigitVal(ds[Len(ds)])

\* The match attempted at position i: \d+ takes the whole digit run and \s*
\* the whole blank run (giving either back cannot make a unit match, since
\* no unit starts with a digit or a blank); the first alternative that is a
\* prefix of the rest is group 2.  <<>> when the attempt fails.
MatchAt(s, i, units) ==
  LET j == DigitsEnd(s, i)
      k == SpacesEnd(s, j)
      alts == {a \in 1..Len(units) : PrefixAt(s, k, units[a])}
  IN IF j > i /\ alts # {}
     THEN <<[g1 |-> SubSeq(s, i, j - 1),
             g2 |-> units[CHOOSE a \in alts : \A b \in alts : a <= b]]>>
     ELSE <<>>

\* re.search: the attempt at the leftmost position that succeeds.
Search(s, units) ==
  LET hits == {i \in 1..Len(s) : MatchAt(s, i, units) # <<>>}
  IN IF hits = {} THEN <<>>
     ELSE MatchAt(s, CHOOSE i \in hits : \A h \in hits : i <= h, units)

-----------------------------------------------------------------------------
(* difflib.SequenceMatcher(None, a, b).ratio() and get_close_matches.       *)
(* No junk: isjunk is None, and the autojunk heuristic only applies to a    *)
(* second sequence of 200 or more characters, longer than any text here.    *)

\* length of the common run of a[i..ahi] and b[j..bhi] starting at (i, j)
RECURSIVE Ext(_, _, _, _, _, _)
Ext(a, b, i, j, ahi, bhi) ==
  IF i <= ahi /\ j <= bhi /\ a[i] = b[j]
  THEN 1 + Ext(a, b, i + 1, j + 1, ahi, bhi)
  ELSE 0

\* find_longest_match: the longest common block of a[alo..ahi] and
\* b[blo..bhi]; of the longest ones the one starting earliest in a, and of
\* those the one starting earliest in b.  <<i, j, k>>, k = 0 when none.
find_longest_match(a, b, alo, ahi, blo, bhi) ==
  LET T == {<<p[1], p[2], Ext(a, b, p[1], p[2], ahi, bhi)>> :
              p \in {r \in (alo..ahi) \X (blo..bhi) : a[r[1]] = b[r[2]]}}
      Before(t, r) ==
        \/ t[3] > r[3]
        \/ t[3] = r[3] /\ t[1] < r[1]
        \/ t[3] = r[3] /\ t[1] = r[1] /\ t[2] <= r[2]
  IN IF T = {} THEN <<alo, blo, 0>>
     ELSE CHOOSE t \in T : \A r \in T : Before(t, r)

\* sum of the sizes of get_matching_blocks: the longest block, then the
\* same to its left and to its right
RECURSIVE Matches(_, _, _, _, _, _)
\* the block blk = <<i, j, k>> and the blocks on both sides of it
Around(a, b, alo, ahi, blo, bhi, blk) ==
  IF blk[3] = 0 THEN 0
  ELSE blk[3]
       + Matches(a, b, alo, blk[1] - 1, blo, blk[2] - 1)
       + Matches(a, b, blk[1] + blk[3], ahi, blk[2] + blk[3], bhi)

Matches(a, b, alo, ahi, blo, bhi) ==
  IF alo > ahi \/ blo > bhi THEN 0
  ELSE Around(a, b, alo, ahi, blo, bhi,
              find_longest_match(a, b, alo, ahi, blo, bhi))

\* ratio() = 2.0 * M / T as the fraction <<2M, T>>; 1.0 when both are empty
ratio(a, b) ==
  IF Len(a) + Len(b) = 0 THEN <<1, 1>>
  ELSE <<2 * Matches(a, b, 1, Len(a), 1, Len(b)), Len(a) + Len(b)>>

RatLess(x, y) == x[1] * y[2] < y[1] * x[2]

RatEq(x, y) == x[1] * y[2] = y[1] * x[2]

\* cutoff=0.25 of the get_close_matches call, as CutoffNum / CutoffDen
CutoffNum == 25

CutoffDen == 100

\* variant: the call without cutoff=, so difflib's default of 0.6
ReachesCutoffDefault(x) == x[1] * 10 >= 6 * x[2]

ReachesCutoff(x) == x[1] * CutoffDen >= CutoffNum * x[2]

\* Python's < on the (score, candidate) tuples get_close_matches collects
ScoredLess(s, t) ==
  \/ RatLess(s[1], t[1])
  \/ RatEq(s[1], t[1]) /\ StrLess(s[2], t[2])

\* get_close_matches(word, possibilities, n=1, cutoff=0.25): the candidates
\* whose ratio (seq1 = candidate, seq2 = word) reaches the cutoff, as
\* (score, candidate) tuples; nlargest(1, ...) is max() of the tuples.
\* (real_quick_ratio and quick_ratio are upper bounds of ratio, so the three
\* tests together are the test on ratio.)  <<>> or <<candidate>>.
Largest(result) ==
  IF result = {} THEN <<>>
  ELSE <<(CHOOSE t \in result : \A r \in result : ~ScoredLess(t, r))[2]>>

get_close_matches(word, possibilities) ==
  Largest({t \in {<<ratio(x, word), x>> :
                    x \in {possibilities[i] : i \in 1..Len(possibilities)}} :
             ReachesCutoff(t[1])})

-----------------------------------------------------------------------------
(* The dataset table (load_data) and the model (load_model).                *)
(* A table is the sequence of its rows; a row is a record over Columns.     *)
(* brand and model are strings; every other cell is <<v>> or, when the CSV  *)
(* field is empty (NaN), <<>>.                                              *)

Columns ==
  <<"brand", "model", "battery_capacity_kwh", "range_km", "price_inr",
    "body_style", "charging_type">>

NaN == <<>>

None == <<>>

IsNaN(cell) == cell = <<>>

\* a row's cell by column name
Cell(r, col) ==
  CASE col = "brand" -> <<r.brand>>
    [] col = "model" -> <<r.model>>
    [] col = "battery_capacity_kwh" -> r.battery_capacity_kwh
    [] col = "range_km" -> r.range_km
    [] col = "price_inr" -> r.price_inr
    [] col = "body_style" -> r.body_style
    [] col = "charging_type" -> r.charging_type

\* joblib.load succeeded (the object either predicts or raises in predict)
\* or failed, in which case load_model returns None
ModelStates == {"None", "predicts", "raises"}

\* a + b on strings
Cat(a, b) == a \o b

\* (df["brand"] + " " + df["model"]).str.lower().tolist()
RECURSIVE Combined(_)
Combined(df) ==
  IF df = <<>> THEN <<>>
  ELSE <<Lower(Cat(Cat(Head(df).brand, <<" ">>), Head(df).model))>>
       \o Combined(Tail(df))

\* list.index(x): the first position holding x
IndexOf(xs, x) == CHOOSE i \in 1..Len(xs) : xs[i] = x /\ \A j \in 1..(i - 1) : xs[j] # x

-----------------------------------------------------------------------------
(* extract_query_details *)

\* variant: only the unit spelled "crore" counts as crore
BudgetOfCroreOnly(mt) ==
  IF Contains(mt.g2, u_lakh) THEN IntOf(mt.g1) * 100000
  ELSE IF mt.g2 = u_crore THEN IntOf(mt.g1) * 10000000
  ELSE IntOf(mt.g1) * 1000000

\* the budget of a match: n = int(group 1), u = group 2
BudgetOf(mt) ==
  LET n == IntOf(mt.g1)
      u == mt.g2
  IN IF Contains(u, u_lakh) THEN n * 100000
     ELSE IF u \in {u_cr, u_crore} THEN n * 10000000
     ELSE n * 1000000

\* the details dict, from the three regex matches (mb, mr, mg) and the close
\* match among the combined names
Details(mb, mr, mg, match, combined, df) ==
  [battery |-> IF mb # <<>> THEN <<IntOf(mb[1].g1)>> ELSE None,
   range   |-> IF mr # <<>> THEN <<IntOf(mr[1].g1)>> ELSE None,
   budget  |-> IF mg # <<>> THEN <<BudgetOf(mg[1])>> ELSE None,
   model   |-> IF match # <<>>
               THEN <<df[IndexOf(combined, match[1])].model>> ELSE None,
   brand   |-> IF match # <<>>
               THEN <<df[IndexOf(combined, match[1])].brand>> ELSE None]

ExtractLow(text_low, combined, df) ==
  Details(Search(text_low, BatteryUnits), Search(text_low, RangeUnits),
          Search(text_low, BudgetUnits),
          get_close_matches(text_low, combined), combined, df)

extract_query_details(text, df) == ExtractLow(Lower(text), Combined(df), df)

-----------------------------------------------------------------------------
(* pandas operations used by the engine.  Each returns a new object and     *)
(* leaves the frame it is applied to as it was.                             *)

Min(a, b) == IF a <= b THEN a ELSE b

\* the column as the sequence of its cells
RECURSIVE Column(_, _)
Column(df, col) ==
  IF df = <<>> THEN <<>> ELSE <<Cell(Head(df), col)>> \o Column(Tail(df), col)

\* the non-NaN values of a column, in row order
RECURSIVE DropNa(_)
DropNa(cells) ==
  IF cells = <<>> THEN <<>>
  ELSE IF IsNaN(Head(cells)) THEN DropNa(Tail(cells))
  ELSE <<Head(cells)[1]>> \o DropNa(Tail(cells))

\* pd.api.types.is_numeric_dtype(df[col]): the number columns, and a column
\* read from a CSV with no value at all (it is float64, all NaN)
NumberColumns == {"battery_capacity_kwh", "range_km", "price_inr"}

is_numeric_dtype(df, col) ==
  \/ col \in NumberColumns
  \/ \A i \in 1..Len(df) : IsNaN(Cell(df[i], col))

\* the column holds floats: it is a number column with a NaN in it
IsFloatColumn(df, col) ==
  col \in NumberColumns /\ \E i \in 1..Len(df) : IsNaN(Cell(df[i], col))

\* the k-th smallest of a sequence of numbers
KthSmallest(vs, k) ==
  LET before(i) == Cardinality({j \in 1..Len(vs) :
                      vs[j] < vs[i] \/ (vs[j] = vs[i] /\ j < i)})
  IN vs[CHOOSE i \in 1..Len(vs) : before(i) = k - 1]

\* Series.median(): NaN skipped; the middle value, or the mean of the two
\* middle values, as the fraction <<numerator, 2>>; NaN when nothing is left
Median(cells) ==
  LET vs == DropNa(cells)
      n == Len(vs)
  IN IF n = 0 THEN NaN
     ELSE <<<<KthSmallest(vs, (n + 1) \div 2) + KthSmallest(vs, (n + 2) \div 2), 2>>>>

\* Series.mode()[0]: NaN dropped, the most frequent value, the least of them
\* in sort order when several are as frequent (mode() returns them sorted)
Mode0(cells) ==
  LET vs == DropNa(cells)
      count(v) == Cardinality({i \in 1..Len(vs) : vs[i] = v})
      top == {v \in {vs[i] : i \in 1..Len(vs)} :
                \A i \in 1..Len(vs) : count(vs[i]) <= count(v)}
  IN <<CHOOSE v \in top : \A w \in top : ~StrLess(w, v)>>

\* DataFrame.drop(columns=names, errors="ignore"): the remaining columns
DropColumns(cols, names) == SelectSeq(cols, LAMBDA c : c \notin names)

\* df[df["price_inr"] <= budget]: a comparison with NaN is False
FilterPriceLe(df, budget) ==
  SelectSeq(df, LAMBDA r : ~IsNaN(r.price_inr) /\ r.price_inr[1] <= budget)

\* df[(df["brand"] == brand) & (df["model"] == model)]
FilterBrandModel(df, brand, mdl) ==
  SelectSeq(df, LAMBDA r : r.brand = brand /\ r.model = mdl)

\* rows shown by head(5)
HeadN == 5

head(df) == SubSeq(df, 1, Min(HeadN, Len(df)))

\* df.sort_values("range_km", ascending=False): greater range first, rows
\* without a range last.  Rows of equal range are kept in table order here;
\* the default sort kind promises no order among them, only the same order
\* on every call, and no property below depends on which it is.
RangeBefore(df, j, i) ==
  LET a == df[j].range_km
      b == df[i].range_km
  IN \/ ~IsNaN(a) /\ IsNaN(b)
     \/ ~IsNaN(a) /\ ~IsNaN(b) /\ a[1] > b[1]
     \/ j < i /\ (IsNaN(a) <=> IsNaN(b)) /\ (IsNaN(a) \/ a[1] = b[1])

\* variant: ascending=True
sort_valuesAscending(df) ==
  LET pos(i) == Cardinality({j \in 1..Len(df) : j # i /\ RangeBefore(df, i, j)})
  IN [k \in 1..Len(df) |-> df[CHOOSE i \in 1..Len(df) : pos(i) = k - 1]]

sort_values(df) ==
  LET pos(i) == Cardinality({j \in 1..Len(df) : j # i /\ RangeBefore(df, j, i)})
  IN [k \in 1..Len(df) |-> df[CHOOSE i \in 1..Len(df) : pos(i) = k - 1]]

\* str() of a non-negative integer
RECURSIVE Digits(_)
Digits(n) ==
  IF n < 10 THEN <<Alphabet[n + 2]>>
  ELSE Digits(n \div 10) \o <<Alphabet[(n % 10) + 2]>>

s_nan == <<"n","a","n">>

s_NA == <<"N","/","A">>

\* a cell of a number column in an f-string: "nan", or the digits, with
\* ".0" when the column holds floats
FmtNum(df, col, cell) ==
  IF IsNaN(cell) THEN s_nan
  ELSE IF IsFloatColumn(df, col) THEN Digits(cell[1]) \o <<".", "0">>
  ELSE Digits(cell[1])

\* a cell of a text column in an f-string
FmtStr(cell) == IF IsNaN(cell) THEN s_nan ELSE cell[1]

Fmt(df, col, cell) ==
  IF col \in NumberColumns THEN FmtNum(df, col, cell) ELSE FmtStr(cell)

-----------------------------------------------------------------------------
(* build_prediction_row: one value per column of df_clean *)

build_prediction_row(cols, df, battery, range_km) ==
  [c \in {cols[i] : i \in 1..Len(cols)} |->
     IF c = "battery_capacity_kwh" THEN <<battery>>
     ELSE IF c = "range_km" THEN <<range_km>>
     ELSE IF is_numeric_dtype(df, c) THEN Median(Column(df, c))
     ELSE Mode0(Column(df, c))]

-----------------------------------------------------------------------------
(* chatbot_reply.  A reply is the message with the values its f-string      *)
(* interpolates; each branch returns the reply and the module-level `data`  *)
(* as the branch leaves it.                                                 *)

Msg(text, args) == [msg |-> text, args |-> args]

\* the messages chatbot_reply returns (f-string templates by their fields)
MsgUnavailable == "Price prediction unavailable (model file missing)."

MsgNeedBatteryRange == "Please provide both battery size (kWh) and range (km)."

MsgPredictionFailed == "Prediction failed: {e}"

MsgEstimated == "Estimated Price: {model.predict(pred_input)[0]}"

MsgNeedBudget == "Please provide a budget like under 15 lakh."

MsgNoMatch == "No EVs match this budget."

MsgBudgetLine == "- {brand} {model} ({range_km} km)"

MsgRecommendLine == "- {brand} {model} - {range_km} km"

MsgNoModel == "I couldn't identify a specific EV model."

MsgNotFound == "Model not found in dataset."

MsgSummary == "### {brand} {model} Battery/Range/Body/Charging"

MsgHelp == "I didn't understand."

\* an exception that leaves chatbot_reply instead of a returned string
Raise(e) == [msg |-> "raise", args |-> <<e>>]


\* `not x` on None or a number
FalsyNum(cell) == cell = None \/ cell[1] = 0

\* `not x` on None or a string
FalsyStr(cell) == cell = None \/ cell[1] = <<>>

\* Series.get(key, default) on a row: the default only when the row has no
\* such column
Get(df, r, col, default) ==
  IF \E i \in 1..Len(Columns) : Columns[i] = col
  THEN Fmt(df, col, Cell(r, col))
  ELSE default

\* variant: the predict call outside any try/except
PriceBranchNoTry(df, mdl, dd) ==
  IF mdl = "None" THEN [reply |-> Msg(MsgUnavailable, <<>>), data |-> df]
  ELSE IF FalsyNum(dd.battery) \/ FalsyNum(dd.range)
  THEN [reply |-> Msg(MsgNeedBatteryRange, <<>>), data |-> df]
  ELSE IF mdl = "raises" THEN [reply |-> Raise("PredictionError"), data |-> df]
  ELSE [reply |-> Msg(MsgEstimated,
                      <<build_prediction_row(
                          DropColumns(Columns, {"price_inr", "source_url"}),
                          df, dd.battery[1], dd.range[1])>>),
        data |-> df]

\* variant: the entities are checked before the model
PriceBranchEntitiesFirst(df, mdl, dd) ==
  IF FalsyNum(dd.battery) \/ FalsyNum(dd.range)
  THEN [reply |-> Msg(MsgNeedBatteryRange, <<>>), data |-> df]
  ELSE IF mdl = "None" THEN [reply |-> Msg(MsgUnavailable, <<>>), data |-> df]
  ELSE IF mdl = "raises" THEN [reply |-> Msg(MsgPredictionFailed, <<>>), data |-> df]
  ELSE [reply |-> Msg(MsgEstimated,
                      <<build_prediction_row(
                          DropColumns(Columns, {"price_inr", "source_url"}),
                          df, dd.battery[1], dd.range[1])>>),
        data |-> df]

PriceBranch(df, mdl, dd) ==
  IF mdl = "None"
  THEN [reply |-> Msg(MsgUnavailable, <<>>),
        data |-> df]
  ELSE IF FalsyNum(dd.battery) \/ FalsyNum(dd.range)
  THEN [reply |-> Msg(MsgNeedBatteryRange, <<>>),
        data |-> df]
  ELSE LET df_clean == DropColumns(Columns, {"price_inr", "source_url"})
           pred_input == build_prediction_row(df_clean, df, dd.battery[1], dd.range[1])
       IN IF mdl = "raises"
          THEN [reply |-> Msg(MsgPredictionFailed, <<>>), data |-> df]
          ELSE [reply |-> Msg(MsgEstimated,
                              <<pred_input>>),
                data |-> df]

\* one line of a listing: brand, model and range_km as formatted
Line(df, r) == <<r.brand, r.model, Fmt(df, "range_km", r.range_km)>>

BudgetBranch(df, dd) ==
  IF FalsyNum(dd.budget)
  THEN [reply |-> Msg(MsgNeedBudget, <<>>), data |-> df]
  ELSE LET df_b == FilterPriceLe(df, dd.budget[1]) IN
       IF df_b = <<>>
       THEN [reply |-> Msg(MsgNoMatch, <<>>), data |-> df]
       ELSE [reply |-> Msg(MsgBudgetLine,
                           [i \in 1..Len(head(df_b)) |-> Line(df, head(df_b)[i])]),
             data |-> df]

\* variant: sort_values(..., inplace=True) on the module-level table
RecommendBranchInPlace(df) ==
  [reply |-> Msg(MsgRecommendLine,
                 [i \in 1..Len(head(sort_values(df))) |->
                    Line(df, head(sort_values(df))[i])]),
   data |-> SubSeq(sort_values(df), 1, Len(df))]

RecommendBranch(df) ==
  LET top == head(sort_values(df)) IN
  [reply |-> Msg(MsgRecommendLine,
                 [i \in 1..Len(top) |-> Line(df, top[i])]),
   data |-> df]

InfoBranch(df, dd) ==
  IF FalsyStr(dd.model)
  THEN [reply |-> Msg(MsgNoModel, <<>>), data |-> df]
  ELSE LET row == FilterBrandModel(df, dd.brand[1], dd.model[1]) IN
       IF row = <<>>
       THEN [reply |-> Msg(MsgNotFound, <<>>), data |-> df]
       ELSE LET r == row[1] IN
            [reply |-> Msg(MsgSummary,
                           <<r.brand, r.model,
                             Get(df, r, "battery_capacity_kwh", s_NA),
                             Get(df, r, "range_km", s_NA),
                             Get(df, r, "body_style", s_NA),
                             Get(df, r, "charging_type", s_NA)>>),
             data |-> df]

\* the branch taken for intent it and details dd
Branch(it, dd, df, mdl) ==
  CASE it = "price" -> PriceBranch(df, mdl, dd)
    [] it = "budget" -> BudgetBranch(df, dd)
    [] it = "recommend" -> RecommendBranch(df)
    [] it = "info" -> InfoBranch(df, dd)
    [] OTHER -> [reply |-> Msg(MsgHelp, <<>>), data |-> df]

\* the locals of a call and what it leaves in `data`
Locals(it, dd, out) ==
  [intent |-> it, d |-> dd, reply |-> out.reply, data |-> out.data]

Dispatch(it, dd, df, mdl) == Locals(it, dd, Branch(it, dd, df, mdl))

chatbot_reply(text, df, mdl) ==
  Dispatch(detect_intent(text), extract_query_details(text, df), df, mdl)

-----------------------------------------------------------------------------
(* Inputs: the tables the dataset file may hold and the texts a user may    *)
(* type.                                                                    *)

\* rows of EV data: two rows of one range, rows with empty fields, two rows
\* of one brand and model, two models of one brand
Catalog ==
  <<
    [brand |-> <<"T","a","t","a">>, model |-> <<"N","e","x","o","n">>,
     battery_capacity_kwh |-> <<30>>, range_km |-> <<250>>, price_inr |-> <<1500000>>,
     body_style |-> <<<<"S","U","V">>>>, charging_type |-> <<<<"C","C","S","2">>>>],
    [brand |-> <<"T","a","t","a">>, model |-> <<"T","i","a","g","o">>,
     battery_capacity_kwh |-> <<24>>, range_km |-> <<250>>, price_inr |-> <<800000>>,
     body_style |-> <<<<"H","a","t","c","h">>>>, charging_type |-> NaN],
    [brand |-> <<"T","e","s","l","a">>, model |-> <<"M","o","d","e","l","3">>,
     battery_capacity_kwh |-> <<60>>, range_km |-> <<400>>, price_inr |-> <<3500000>>,
     body_style |-> <<<<"S","e","d","a","n">>>>, charging_type |-> <<<<"C","C","S","2">>>>],
    [brand |-> <<"M","G">>, model |-> <<"Z","S">>,
     battery_capacity_kwh |-> NaN, range_km |-> NaN, price_inr |-> <<2500000>>,
     body_style |-> NaN, charging_type |-> <<<<"C","C","S","2">>>>],
    [brand |-> <<"T","a","t","a">>, model |-> <<"N","e","x","o","n">>,
     battery_capacity_kwh |-> <<40>>, range_km |-> <<300>>, price_inr |-> <<1700000>>,
     body_style |-> <<<<"S","U","V">>>>, charging_type |-> <<<<"C","C","S","2">>>>],
    [brand |-> <<"B","Y","D">>, model |-> <<"A","t","t","o","3">>,
     battery_capacity_kwh |-> <<60>>, range_km |-> <<400>>, price_inr |-> NaN,
     body_style |-> <<<<"S","U","V">>>>, charging_type |-> <<<<"T","y","p","e","2">>>>],
    [brand |-> <<"K","i","a">>, model |-> <<"E","V","6">>,
     battery_capacity_kwh |-> <<77>>, range_km |-> <<500>>, price_inr |-> <<6000000>>,
     body_style |-> <<<<"S","U","V">>>>, charging_type |-> <<<<"C","C","S","2">>>>],
    [brand |-> <<"M","G">>, model |-> <<"C","o","m","e","t">>,
     battery_capacity_kwh |-> <<17>>, range_km |-> <<200>>, price_inr |-> <<700000>>,
     body_style |-> <<<<"H","a","t","c","h">>>>, charging_type |-> <<<<"T","y","p","e","2">>>>]
  >>

RECURSIVE Reverse(_)
Reverse(xs) == IF xs = <<>> THEN <<>> ELSE Reverse(Tail(xs)) \o <<Head(xs)>>

MaxRows == 7

SmallRows == 2

\* a table: the first rows of the catalog, read forwards or backwards, a
\* few of them or many
Tables ==
  {SubSeq(c, 1, n) : c \in {Catalog, Reverse(Catalog)},
                     n \in {Min(SmallRows, Len(Catalog)), Min(MaxRows, Len(Catalog))}}

w_price == <<"p","r","i","c","e">>

w_ESTIMATE == <<"E","S","T","I","M","A","T","E">>

w_under == <<"u","n","d","e","r">>

w_budget == <<"b","u","d","g","e","t">>

w_recommend == <<"r","e","c","o","m","m","e","n","d">>

w_suggest == <<"s","u","g","g","e","s","t">>

w_info == <<"i","n","f","o">>

w_details == <<"d","e","t","a","i","l","s">>

w_specs == <<"s","p","e","c","s">>

w_tell == <<"t","e","l","l"," ","m","e"," ","a","b","o","u","t">>

w_hi == <<"h","i">>

w_40kwh300km == <<"4","0","k","w","h"," ","3","0","0"," ","k","m">>

w_40kw == <<"4","0"," ","k","w">>

w_0kwh300km == <<"0","k","w","h"," ","3","0","0","k","m">>

w_15lakh == <<"1","5"," ","l","a","k","h">>

w_2crore == <<"2"," ","c","r","o","r","e">>

w_3million == <<"3"," ","m","i","l","l","i","o","n">>

w_0cr == <<"0","c","r">>

w_20lakhs == <<"2","0"," ","l","a","k","h","s">>

w_tata == <<"t","a","t","a">>

w_model3 == <<"t","e","s","l","a"," ","m","o","d","e","l","3">>

w_zs == <<"m","g"," ","z","s">>

w_nexon == <<"N","e","x","o","n">>

\* the words of the intent rules, one of them in capitals, and a greeting
IntentWords ==
  {w_price, w_ESTIMATE, w_under, w_budget, w_recommend, w_suggest, w_info,
   w_details, w_specs, w_tell, w_hi}

\* intent words and phrases carrying a battery size, a range, a budget or a
\* vehicle name
Words ==
  {w_price, w_ESTIMATE, w_under, w_budget, w_recommend, w_info,
   w_40kwh300km, w_40kw, w_0kwh300km, w_15lakh, w_2crore, w_3million, w_0cr,
   w_20lakhs, w_tata, w_model3, w_zs, w_nexon}

\* the words joined by single blanks
RECURSIVE Join(_)
Join(ws) ==
  IF Len(ws) = 0 THEN <<>>
  ELSE IF Len(ws) = 1 THEN ws[1]
  ELSE ws[1] \o <<" ">> \o Join(Tail(ws))

\* the texts of one to n words
Sentences(words, n) ==
  {Join(ws) : ws \in UNION {[1..k -> words] : k \in 1..n}}

MaxWords == 2

-----------------------------------------------------------------------------
(* The state: the cached table and model, and the locals of the latest      *)
(* chatbot_reply call (q is empty before the first message).  hist is a     *)
(* history variable: the text and reply of the session's first call, and    *)
(* whether a call with another text has run since.                          *)

NoDetails ==
  [battery |-> None, range |-> None, budget |-> None, model |-> None, brand |-> None]

Init ==
  /\ data \in Tables
  /\ model \in ModelStates
  /\ q = <<>>
  /\ intent = "unknown"
  /\ d = NoDetails
  /\ reply = Msg("", <<>>)
  /\ hist = [q |-> <<>>, reply |-> Msg("", <<>>), between |-> FALSE]

\* the chat page's handler: a non-empty input is answered by chatbot_reply
Ask(text) ==
  /\ text # <<>>
  /\ \E out \in {chatbot_reply(text, data, model)} :
       /\ q' = text
       /\ intent' = out.intent
       /\ d' = out.d
       /\ reply' = out.reply
       /\ data' = out.data
       /\ hist' = IF hist.q = <<>>
                  THEN [q |-> text, reply |-> out.reply, between |-> FALSE]
                  ELSE [hist EXCEPT !.between = @ \/ text # hist.q]
  /\ UNCHANGED model

\* a session: any number of messages
SessionTexts ==
  {Join(<<w_price, w_40kwh300km>>), Join(<<w_under, w_2crore>>),
   Join(<<w_under, w_15lakh>>), w_recommend, Join(<<w_suggest, w_15lakh>>),
   Join(<<w_info, w_tata>>), Join(<<w_tell, w_model3>>),
   Join(<<w_info, w_zs>>), w_budget, w_hi}

Next == \E text \in SessionTexts : Ask(text)

Spec == Init /\ [][Next]_vars

\* the first message of a session, over the texts of up to MaxWords words
Texts == Sentences(Words, MaxWords)

NextFirst == q = <<>> /\ \E text \in Texts : Ask(text)

SpecFirst == Init /\ [][NextFirst]_vars

\* the first message of a session, over the texts made of intent words
IntentTexts == Sentences(IntentWords, MaxWords)

NextIntent == q = <<>> /\ \E text \in IntentTexts : Ask(text)

SpecIntent == Init /\ [][NextIntent]_vars

-----------------------------------------------------------------------------
(* Properties.  Called: a message has been answered, and q, intent, d and   *)
(* reply are the locals of that call.                                       *)

Called == q # <<>>

Has(k) == Contains(Lower(q), k)

Intents == {"price", "budget", "recommend", "info", "unknown"}

\* C1: detect_intent returns exactly one of the five intents, chosen by
\* case-insensitive containment in the order price, budget, recommend,
\* info, unknown: each intent is returned exactly when one of its keywords
\* occurs in the text and no keyword of an earlier rule does.
C1_IntentPriority ==
  Called =>
    /\ intent \in Intents
    /\ (intent = "price") <=> (Has(kw_price) \/ Has(kw_estimate))
    /\ (intent = "budget") <=>
         /\ ~(Has(kw_price) \/ Has(kw_estimate))
         /\ (Has(kw_under) \/ Has(kw_budget))
    /\ (intent = "recommend") <=>
         /\ ~(Has(kw_price) \/ Has(kw_estimate) \/ Has(kw_under) \/ Has(kw_budget))
         /\ (Has(kw_recommend) \/ Has(kw_suggest))
    /\ (intent = "info") <=>
         /\ ~(Has(kw_price) \/ Has(kw_estimate) \/ Has(kw_under) \/ Has(kw_budget))
         /\ ~(Has(kw_recommend) \/ Has(kw_suggest))
         /\ (Has(kw_info) \/ Has(kw_details) \/ Has(kw_specs) \/ Has(kw_tell))

\* a text in capitals with a price keyword and a budget keyword got price
C1_Witness ==
  /\ Called
  /\ Has(kw_estimate) /\ ~Contains(q, kw_estimate)
  /\ Has(kw_under)
  /\ intent = "price"

ReplyMessages ==
  {MsgUnavailable, MsgNeedBatteryRange, MsgPredictionFailed, MsgEstimated,
   MsgNeedBudget, MsgNoMatch, MsgBudgetLine, MsgRecommendLine, MsgNoModel,
   MsgNotFound, MsgSummary, MsgHelp}

C3_ModelUnavailable ==
  (Called /\ model = "None") =>
    IF intent = "price"
    THEN reply = Msg(MsgUnavailable, <<>>)
    ELSE /\ reply = chatbot_reply(q, data, "predicts").reply
         /\ reply.msg \notin {MsgUnavailable, MsgEstimated, MsgPredictionFailed}

\* a price request without a battery size was told the model is unavailable
C3_Witness ==
  /\ Called
  /\ model = "None"
  /\ intent = "price"
  /\ d.battery = None
  /\ reply.msg = MsgUnavailable

\* C4 (as claimed): with a model loaded, a price request gets the guidance
\* message exactly when the battery or the range pattern did not match the
\* text; when both matched, the model is invoked.
C4_GuidanceIffPatternAbsent ==
  (Called /\ model # "None" /\ intent = "price") =>
    /\ (reply.msg = MsgNeedBatteryRange)
         <=> (Search(Lower(q), BatteryUnits) = <<>>
                \/ Search(Lower(q), RangeUnits) = <<>>)
    /\ (Search(Lower(q), BatteryUnits) # <<>> /\ Search(Lower(q), RangeUnits) # <<>>)
         => reply.msg \in {MsgEstimated, MsgPredictionFailed}

\* the rows a budget request is to list: the first HeadN rows priced at or
\* under the budget, in table order
RECURSIVE Affordable(_, _)
Affordable(df, budget) ==
  IF df = <<>> THEN <<>>
  ELSE IF Head(df).price_inr # NaN /\ Head(df).price_inr[1] <= budget
  THEN <<Head(df)>> \o Affordable(Tail(df), budget)
  ELSE Affordable(Tail(df), budget)

ExpectedBudgetReply(rows) ==
  IF rows = <<>> THEN Msg(MsgNoMatch, <<>>)
  ELSE Msg(MsgBudgetLine,
           [i \in 1..Min(5, Len(rows)) |-> Line(data, rows[i])])

\* C5 (as claimed): a budget request whose text has a budget match gets the
\* no-match message or the first min(5, k) affordable rows in table order;
\* the guidance message is returned only when the text has no budget match.
C5_BudgetFilter ==
  (Called /\ intent = "budget") =>
    IF Search(Lower(q), BudgetUnits) = <<>>
    THEN reply = Msg(MsgNeedBudget, <<>>)
    ELSE /\ d.budget # None
         /\ reply = ExpectedBudgetReply(Affordable(data, d.budget[1]))

\* the positions of the rows shown as line ln, and how often ln is listed
RowsAs(ln) == {i \in 1..Len(data) : Line(data, data[i]) = ln}

CountIn(lines, ln) == Cardinality({k \in 1..Len(lines) : lines[k] = ln})

RangeOf(ln) == data[CHOOSE i \in RowsAs(ln) : TRUE].range_km

\* a > b on range cells; no comparison with an empty cell is true
Greater(a, b) == a # NaN /\ b # NaN /\ a[1] > b[1]

SortedTop(lines) ==
  /\ Len(lines) = Min(5, Len(data))
  /\ \A k \in 1..Len(lines) : CountIn(lines, lines[k]) <= Cardinality(RowsAs(lines[k]))
  /\ \A j \in 1..Len(lines) : \A k \in (j + 1)..Len(lines) :
       ~Greater(RangeOf(lines[k]), RangeOf(lines[j]))
  /\ \A i \in 1..Len(data) :
       CountIn(lines, Line(data, data[i])) < Cardinality(RowsAs(Line(data, data[i])))
         => \A k \in 1..Len(lines) : ~Greater(data[i].range_km, RangeOf(lines[k]))

\* C6: a recommend request lists min(5, rows) distinct rows in non-increasing
\* range order, no row left out has a range greater than a listed one, and
\* the listing is the one the bare word "recommend" gets on the same table,
\* whatever entities the text carries.
C6_RecommendTopByRange ==
  (Called /\ intent = "recommend") =>
    /\ reply.msg = MsgRecommendLine
    /\ SortedTop(reply.args)
    /\ reply = chatbot_reply(w_recommend, data, model).reply

\* a recommend request carrying a budget, on a table of more than five rows
C6_Witness ==
  /\ Called
  /\ intent = "recommend"
  /\ d.budget # None
  /\ Len(data) > 5
  /\ Len(reply.args) = 5

\* the multiplier of each unit the budget pattern can capture
Factor(u) ==
  CASE u \in {u_lakh, u_lakhs} -> 100000
    [] u \in {u_cr, u_crore} -> 10000000
    [] u = u_million -> 1000000

BudgetFromMatch(mt) ==
  IF mt = <<>> THEN None ELSE <<IntOf(mt[1].g1) * Factor(mt[1].g2)>>

\* C7: the budget is the integer of the first "<integer> <unit>" match times
\* 100,000 for lakh(s), 10,000,000 for cr or crore and 1,000,000 for
\* million, and absent without a match: "15 lakh" is 1,500,000, "2 crore"
\* 20,000,000, "3 million" 3,000,000.
C7_BudgetUnits ==
  Called =>
    /\ d.budget = BudgetFromMatch(Search(Lower(q), BudgetUnits))
    /\ (q = w_15lakh => d.budget = <<1500000>>)
    /\ (q = w_2crore => d.budget = <<20000000>>)
    /\ (q = w_3million => d.budget = <<3000000>>)
    /\ (q = Join(<<w_15lakh, w_2crore>>) => d.budget = <<1500000>>)

\* "2 crore" was read as 20,000,000
C7_Witness ==
  /\ Called
  /\ q = w_2crore
  /\ d.budget = <<20000000>>

\* C8: no call changes the table or the model, and a call with the text of
\* the session's first call returns what the first call returned, whatever
\* calls ran in between.
C8_Stateless ==
  /\ [](Called /\ q = hist.q => reply = hist.reply)
  /\ [][data' = data /\ model' = model]_vars

\* the first text asked again after a call with another text, answered by
\* the same listing
C8_Witness ==
  /\ Called
  /\ hist.between
  /\ q = hist.q
  /\ reply.msg = MsgBudgetLine
  /\ reply = hist.reply

\* a field of the summary as claimed: N/A for an empty cell
ShowOrNA(r, col) ==
  IF Cell(r, col) = NaN THEN s_NA ELSE Fmt(data, col, Cell(r, col))

SummaryWithNA(r) ==
  Msg(MsgSummary,
      <<r.brand, r.model, ShowOrNA(r, "battery_capacity_kwh"),
        ShowOrNA(r, "range_km"), ShowOrNA(r, "body_style"),
        ShowOrNA(r, "charging_type")>>)

MatchingRows == {i \in 1..Len(data) : <<data[i].brand>> = d.brand /\ <<data[i].model>> = d.model}

\* C9 (as claimed): an info request with brand and model resolved gets the
\* summary of the first row of that brand and model, with N/A in place of
\* each of battery, range, body style and charging type that is empty in
\* the row.
C9_SummaryWithNA ==
  (Called /\ intent = "info" /\ d.brand # None /\ d.model # None /\ MatchingRows # {}) =>
    reply = SummaryWithNA(data[CHOOSE i \in MatchingRows : \A j \in MatchingRows : i <= j])

\* the similarity of each row's "<brand> <model>" to the word
RECURSIVE Scores(_, _)
Scores(cands, word) ==
  IF cands = <<>> THEN <<>>
  ELSE <<ratio(Head(cands), word)>> \o Scores(Tail(cands), word)

\* the rows whose similarity 2M/T is at least 1/4
Close(sc) == {i \in 1..Len(sc) : 4 * sc[i][1] >= sc[i][2]}

\* those of them with the highest similarity
Top(sc) ==
  {i \in Close(sc) : \A j \in Close(sc) : sc[j][1] * sc[i][2] <= sc[i][1] * sc[j][2]}

\* those of the top rows whose name is the greatest in string order
GreatestName(sc, cands) ==
  {i \in Top(sc) : \A j \in Top(sc) : ~StrLess(cands[i], cands[j])}

FirstOf(S) == CHOOSE i \in S : \A j \in S : i <= j

ResolvedTo(i) == d.brand = <<data[i].brand>> /\ d.model = <<data[i].model>>

BothAbsent == d.brand = None /\ d.model = None

FirstInTableOrder(sc) ==
  IF Close(sc) = {} THEN BothAbsent ELSE ResolvedTo(FirstOf(Top(sc)))

GreatestNameFirstRow(sc, cands) ==
  IF Close(sc) = {} THEN BothAbsent
  ELSE ResolvedTo(FirstOf(GreatestName(sc, cands)))

\* C10 (as claimed): brand and model are both absent when no candidate
\* reaches similarity 0.25, and otherwise both come from the first row in
\* table order among the rows of highest similarity.
C10_FirstInTableOrder ==
  Called => FirstInTableOrder(Scores(Combined(data), Lower(q)))

\* C10 (amended): brand and model are both absent when no candidate reaches
\* similarity 0.25, and otherwise both come from one row: among the rows of
\* highest similarity, the first row in table order whose lowered
\* "<brand> <model>" is the greatest in string order.
C10_GreatestCandidate ==
  Called => GreatestNameFirstRow(Scores(Combined(data), Lower(q)), Combined(data))

\* two names tie for the highest similarity and the later row's greater
\* name was taken
C10_Witness ==
  /\ Called
  /\ Cardinality(Top(Scores(Combined(data), Lower(q)))) > 1
  /\ d.brand # None
  /\ ~ResolvedTo(FirstOf(Top(Scores(Combined(data), Lower(q)))))

====
